---------------------------- MODULE Spec2Model ----------------------------
(***************************************************************************)
(* Downturn_Rebound_Signal: the signal detector, the trading calendar, the  *)
(* event grouper, the event study and the long-short NAV builder.           *)
(*                                                                          *)
(* Python positions are kept 0-based: a pandas index or list of length n is *)
(* a function with domain 0..n-1.  Floating-point values are modelled as    *)
(* exact rationals [n, d]; NaN, +inf and -inf are the three values with     *)
(* d = 0.  Python's None for a date is the value None (no date is negative).*)
(***************************************************************************)
EXTENDS Integers, Sequences, FiniteSets, TLC

VARIABLES
    pc,              \* which function of main.py is running / has returned
    \* ---- make_trade_day_tools ----
    dates,           \* the sorted trading-day index (0-based function)
    calOp,           \* the calendar function called last: "none" | "prev" | "add"
    calArg,          \* its date argument
    calOff,          \* its offset argument (add_trade_days)
    calRes,          \* its result (a date or None)
    \* ---- build_event_groups_and_end ----
    sig_list,        \* sorted signal dates still to be processed and done
    sig_pos,         \* position of the for-loop in sig_list
    ret,             \* daily return table: trading day -> instrument -> value
    holding_days,
    n_groups,
    event_groups,    \* dict entry -> (g -> list of instruments)
    event_end,       \* dict entry -> exit
    \* ---- run_event_study ----
    ind_close,       \* close table: trading day -> instrument -> value
    event_excess,    \* the per-event rows, in index order
    mean_excess,     \* the summary G1..G5
    \* ---- build_long_short_nav ----
    ls_ret,          \* daily return per position of dates
    ls_event,        \* per position: the event (T) the inner loop matched, or None
    ls_nav,          \* cumulative product per position of dates
    \* ---- detect_downturn_rebound ----
    df,              \* the sorted, de-duplicated OHLC rows (0-based function)
    params,          \* atr_window, lookback_peak, lookback_trough, cooldown
    scan_i,          \* the loop variable i
    last_signal_pos, \* the cooldown anchor (None before the first signal)
    out              \* the output table, one record per row of df

vars == <<pc, dates, calOp, calArg, calOff, calRes, sig_list, sig_pos, ret,
          holding_days, n_groups, event_groups, event_end, ind_close,
          event_excess, mean_excess, ls_ret, ls_event, ls_nav, df, params, scan_i,
          last_signal_pos, out>>

calVars == <<calOp, calArg, calOff, calRes>>
groupVars == <<sig_list, sig_pos, ret, holding_days, n_groups, event_groups, event_end>>
studyVars == <<ind_close, event_excess, mean_excess>>
navVars == <<ls_ret, ls_event, ls_nav>>
detVars == <<df, params, scan_i, last_signal_pos, out>>

-----------------------------------------------------------------------------
(* Bounds of the model *)

\* calendar dates are the integers 0..MaxDay
MaxDay == 4
\* add_trade_days offsets are drawn from -MaxOff..MaxOff
MaxOff == 3
\* the OHLC series has MaxLen rows
MaxLen == 5
\* the cooldown argument is drawn from 1..MaxCooldown
MaxCooldown == 2

None == -1

-----------------------------------------------------------------------------
(* 0-based lists *)

Len0(f) == Cardinality(DOMAIN f)

Empty0 == [k \in {} |-> 0]

Append0(f, x) == [k \in 0..Len0(f) |-> IF k = Len0(f) THEN x ELSE f[k]]

\* Python slice f[a:b] of a 0-based list, for 0 <= a and b <= len
Slice0(f, a, b) == [k \in 0..(b - a - 1) |-> f[a + k]]

Range0(f) == {f[k] : k \in DOMAIN f}

\* the ascending 0-based list of a finite set of integers
SortedIndex(S) == [k \in 0..(Cardinality(S) - 1) |->
                     CHOOSE x \in S : Cardinality({y \in S : y < x}) = k]

-----------------------------------------------------------------------------
(* Floating-point values as exact rationals *)

Abs(x) == IF x < 0 THEN -x ELSE x

RECURSIVE GCD(_, _)
GCD(a, b) == IF b = 0 THEN a ELSE GCD(b, a % b)

NaN == [n |-> 0, d |-> 0]
PosInf == [n |-> 1, d |-> 0]
NegInf == [n |-> -1, d |-> 0]

Sign(x) == IF x > 0 THEN 1 ELSE IF x < 0 THEN -1 ELSE 0

\* the value n/d in lowest terms; x/0 is +-inf and 0/0 is NaN, as in numpy
Rat(n, d) ==
    IF d = 0 THEN [n |-> Sign(n), d |-> 0]
    ELSE LET g == GCD(Abs(n), Abs(d))
             s == Sign(d)
         IN [n |-> (s * n) \div g, d |-> (s * d) \div g]

Num(k) == [n |-> k, d |-> 1]

IsNaN(x) == x.d = 0 /\ x.n = 0
IsInf(x) == x.d = 0 /\ x.n # 0
IsFinite(x) == x.d # 0

RNeg(a) == [n |-> -a.n, d |-> a.d]

RAdd(a, b) ==
    IF IsNaN(a) \/ IsNaN(b) THEN NaN
    ELSE IF IsInf(a) /\ IsInf(b) THEN (IF a.n = b.n THEN a ELSE NaN)
    ELSE IF IsInf(a) THEN a
    ELSE IF IsInf(b) THEN b
    ELSE LET g == GCD(a.d, b.d)
         IN Rat(a.n * (b.d \div g) + b.n * (a.d \div g), (a.d \div g) * b.d)

RSub(a, b) == RAdd(a, RNeg(b))

RMul(a, b) ==
    IF IsNaN(a) \/ IsNaN(b) THEN NaN
    ELSE IF a.d = 0 \/ b.d = 0 THEN Rat(Sign(a.n) * Sign(b.n), 0)
    ELSE LET g1 == GCD(Abs(a.n), b.d)
             g2 == GCD(Abs(b.n), a.d)
         IN Rat((a.n \div g1) * (b.n \div g2), (a.d \div g2) * (b.d \div g1))

RDiv(a, b) ==
    IF IsNaN(a) \/ IsNaN(b) THEN NaN
    ELSE IF IsInf(b) THEN (IF IsInf(a) THEN NaN ELSE Num(0))
    ELSE IF IsInf(a) THEN (IF b.n < 0 THEN RNeg(a) ELSE a)
    ELSE IF b.n = 0 THEN Rat(a.n, 0)
    ELSE RMul(a, Rat(b.d, b.n))

\* comparisons; every comparison with NaN is False
RLt(a, b) ==
    /\ ~IsNaN(a) /\ ~IsNaN(b)
    /\ IF IsInf(a) \/ IsInf(b)
       THEN (IF IsInf(a) THEN a.n ELSE 0) < (IF IsInf(b) THEN b.n ELSE 0)
            \/ (IsInf(a) /\ ~IsInf(b) /\ a.n < 0)
            \/ (IsInf(b) /\ ~IsInf(a) /\ b.n > 0)
       ELSE a.n * b.d < b.n * a.d

RGt(a, b) == RLt(b, a)

RLe(a, b) == ~IsNaN(a) /\ ~IsNaN(b) /\ ~RLt(b, a)

\* sum of the values v[x], x in the finite set S
RECURSIVE RSum(_, _)
RSum(v, S) ==
    IF S = {} THEN Num(0)
    ELSE LET x == CHOOSE y \in S : TRUE
         IN RAdd(v[x], RSum(v, S \ {x}))

\* pandas mean(): the mean of the non-missing values, NaN if there are none
RMean(v, S) ==
    LET P == {x \in S : ~IsNaN(v[x])}
    IN IF P = {} THEN NaN
       ELSE RDiv(RSum(v, P), Num(Cardinality(P)))

-----------------------------------------------------------------------------
(* make_trade_day_tools *)

\* pos.index.searchsorted(dt, side="right"): the number of index entries <= dt
SearchSortedRight(idx, dt) == Cardinality({k \in DOMAIN idx : idx[k] <= dt})

\* pos[T]: the position of an index entry
PosOf(idx, T) == CHOOSE k \in DOMAIN idx : idx[k] = T

\* a variant that looks strictly to the left of dt even for a trading day
prev_trade_day_strict(idx, dt) ==
    LET k == Cardinality({j \in DOMAIN idx : idx[j] < dt}) - 1
    IN IF k < 0 THEN None ELSE idx[k]

prev_trade_day(idx, dt) ==
    IF dt \in Range0(idx) THEN dt
    ELSE LET k == SearchSortedRight(idx, dt) - 1
         IN IF k < 0 THEN None ELSE idx[k]

\* a variant whose upper range check is off by one and clamps to the last day
add_trade_days_clamp(idx, T, h) ==
    IF T \notin Range0(idx) THEN None
    ELSE LET k == PosOf(idx, T) + h
         IN IF k < 0 \/ k > Len0(idx) THEN None
            ELSE IF k = Len0(idx) THEN idx[Len0(idx) - 1]
            ELSE idx[k]

add_trade_days(idx, T, h) ==
    IF T \notin Range0(idx) THEN None
    ELSE LET k == PosOf(idx, T) + h
         IN IF k < 0 \/ k >= Len0(idx) THEN None
            ELSE idx[k]

-----------------------------------------------------------------------------
(* detect_downturn_rebound *)

\* default arguments of detect_downturn_rebound
d0 == Rat(-5, 100)
u0 == Rat(5, 1000)
low_vol == Rat(1, 100)
high_vol == Rat(2, 100)
bounce_tol == Num(2)

\* the clip range of the volatility adjustment, squared: 0.2^2 and 5.0^2
clip_lo_sq == Rat(4, 100)
clip_hi_sq == Num(25)

RMax(a, b) == IF RLt(a, b) THEN b ELSE a

\* compute_true_range_pct: prev_close is missing on the first row, and
\* max(axis=1) of three missing values is missing
compute_true_range_pct(rows, k) ==
    IF k = 0 THEN NaN
    ELSE LET prev_close == Num(rows[k - 1].close)
             hl == RDiv(Num(rows[k].high - rows[k].low), prev_close)
             hc == RDiv(Num(Abs(rows[k].high - rows[k - 1].close)), prev_close)
             cl == RDiv(Num(Abs(rows[k - 1].close - rows[k].low)), prev_close)
         IN RMax(RMax(hl, hc), cl)

\* compute_atr: rolling(window, min_periods=window).mean()
compute_atr(rows, window, k) ==
    LET W == {j \in (k - window + 1)..k : j >= 0}
        tr == [j \in W |-> compute_true_range_pct(rows, j)]
        valid == {j \in W : ~IsNaN(tr[j])}
    IN IF Cardinality(valid) < window THEN NaN
       ELSE RDiv(RSum(tr, valid), Num(Cardinality(valid)))

\* compute_dynamic_thresholds: the square of adj.  A comparison with a
\* missing atr is False, so adj stays 1 where atr is missing.
adj_sq(atr) ==
    LET a1 == IF RLt(atr, low_vol) THEN RDiv(atr, low_vol) ELSE Num(1)
        a2 == IF RGt(atr, high_vol) THEN RDiv(atr, high_vol) ELSE a1
    IN IF RLt(a2, clip_lo_sq) THEN clip_lo_sq
       ELSE IF RGt(a2, clip_hi_sq) THEN clip_hi_sq
       ELSE a2

\* x > c * sqrt(a2) for a2 > 0, decided on the squares
GtScaled(x, c, a2) ==
    IF x.n >= 0 /\ c.n < 0 THEN TRUE
    ELSE IF x.n < 0 /\ c.n >= 0 THEN FALSE
    ELSE IF x.n >= 0 THEN RGt(RMul(x, x), RMul(RMul(c, c), a2))
    ELSE RLt(RMul(x, x), RMul(RMul(c, c), a2))

\* x < c * sqrt(a2) for a2 > 0
LtScaled(x, c, a2) ==
    IF x.n < 0 /\ c.n >= 0 THEN TRUE
    ELSE IF x.n >= 0 /\ c.n < 0 THEN FALSE
    ELSE IF x.n >= 0 THEN RLt(RMul(x, x), RMul(RMul(c, c), a2))
    ELSE RGt(RMul(x, x), RMul(RMul(c, c), a2))

\* close.iloc[a:b+1].idxmin(): the first position of the minimum close
idxmin(rows, a, b) ==
    CHOOSE k \in a..b :
        /\ \A j \in a..b : rows[k].close <= rows[j].close
        /\ \A j \in a..(k - 1) : rows[j].close > rows[k].close

idxmax(rows, a, b) ==
    CHOOSE k \in a..b :
        /\ \A j \in a..b : rows[k].close >= rows[j].close
        /\ \A j \in a..(k - 1) : rows[j].close < rows[k].close

Max2(a, b) == IF a >= b THEN a ELSE b

start_i(p) == Max2(p.atr_window, p.lookback_peak + p.lookback_trough)

\* (seg / seg.cummin() - 1).max() over the positions a..b
max_bounce(rows, a, b) ==
    LET cummin(k) == rows[idxmin(rows, a, k)].close
        bounce(k) == RSub(Rat(rows[k].close, cummin(k)), Num(1))
    IN bounce(CHOOSE k \in a..b : \A j \in a..b : RLe(bounce(j), bounce(k)))

\* the cooldown gate (line 113), with a gate that is one position short
cooldown_blocks_short(last, k, cooldown) ==
    last # None /\ k - last < cooldown - 1

cooldown_blocks(last, k, cooldown) ==
    last # None /\ k - last < cooldown

\* the positions of the trough search window (line 132)
low_window(p, k) == [first |-> k - p.lookback_trough, last |-> k]

\* a variant of the loop body without the rebound gate
Gates_no_rebound(rows, p, last, k, a2) ==
    LET lw == low_window(p, k)
        pos_low == idxmin(rows, lw.first, lw.last)
        start_high == Max2(0, pos_low - p.lookback_peak)
        pos_high == idxmax(rows, start_high, pos_low)
        drawdown == RSub(Rat(rows[pos_low].close, rows[pos_high].close), Num(1))
        seg_len == pos_low - pos_high + 1
        bmax == max_bounce(rows, pos_high, pos_low)
        rebound == RSub(Rat(rows[k].close, rows[pos_low].close), Num(1))
        verdict ==
            IF cooldown_blocks(last, k, p.cooldown) THEN "cooldown"
            ELSE IF IsNaN(a2) THEN "no_threshold"
            ELSE IF GtScaled(drawdown, d0, a2) THEN "drawdown"
            ELSE IF seg_len < 2 THEN "short_segment"
            ELSE IF GtScaled(bmax, RMul(bounce_tol, u0), a2) THEN "bounce"
            ELSE "emit"
    IN [verdict |-> verdict, t_high |-> pos_high, t_low |-> pos_low,
        drawdown |-> drawdown, max_bounce_in_drop |-> bmax,
        rebound_from_low |-> rebound]

\* one pass of the loop body at position k: the gates in source order
Gates(rows, p, last, k, a2) ==
    LET lw == low_window(p, k)
        pos_low == idxmin(rows, lw.first, lw.last)
        start_high == Max2(0, pos_low - p.lookback_peak)
        pos_high == idxmax(rows, start_high, pos_low)
        drawdown == RSub(Rat(rows[pos_low].close, rows[pos_high].close), Num(1))
        seg_len == pos_low - pos_high + 1
        bmax == max_bounce(rows, pos_high, pos_low)
        rebound == RSub(Rat(rows[k].close, rows[pos_low].close), Num(1))
        verdict ==
            IF cooldown_blocks(last, k, p.cooldown) THEN "cooldown"
            ELSE IF IsNaN(a2) THEN "no_threshold"
            ELSE IF GtScaled(drawdown, d0, a2) THEN "drawdown"
            ELSE IF seg_len < 2 THEN "short_segment"
            ELSE IF GtScaled(bmax, RMul(bounce_tol, u0), a2) THEN "bounce"
            ELSE IF LtScaled(rebound, u0, a2) THEN "rebound"
            ELSE "emit"
    IN [verdict |-> verdict, t_high |-> pos_high, t_low |-> pos_low,
        drawdown |-> drawdown, max_bounce_in_drop |-> bmax,
        rebound_from_low |-> rebound]

\* the output table before the loop (lines 95-103)
InitOut(rows, p) ==
    [k \in DOMAIN rows |->
        LET atr == compute_atr(rows, p.atr_window, k)
        IN [signal |-> 0, t_high |-> None, t_low |-> None, drawdown |-> NaN,
            max_bounce_in_drop |-> NaN, rebound_from_low |-> NaN,
            atr |-> atr, adj_sq |-> adj_sq(atr)]]

\* the OHLC rows drawn: two flat bars and one with a range
Bars == {[high |-> 20, low |-> 20, close |-> 20],
         [high |-> 17, low |-> 17, close |-> 17],
         [high |-> 17, low |-> 16, close |-> 16]}

\* the arguments drawn (the defaults are 60, 60, 20 and 10)
ParamSets ==
    {p \in [atr_window : {1, 2}, lookback_peak : {1, 3},
            lookback_trough : {1, 2}, cooldown : 1..MaxCooldown] :
        p.lookback_peak + p.lookback_trough <= 4}

\* the variables of the functions that are not running
CalendarIdle ==
    /\ dates = Empty0 /\ calOp = "none" /\ calArg = None /\ calOff = 0
    /\ calRes = None

BacktestIdle ==
    /\ sig_list = Empty0 /\ sig_pos = 0 /\ ret = Empty0 /\ holding_days = 0
    /\ n_groups = 0 /\ event_groups = Empty0 /\ event_end = Empty0
    /\ ind_close = Empty0 /\ event_excess = Empty0 /\ mean_excess = Empty0
    /\ ls_ret = Empty0 /\ ls_event = Empty0 /\ ls_nav = Empty0

DetIdle ==
    /\ df = Empty0 /\ params = Empty0 /\ scan_i = 0
    /\ last_signal_pos = None /\ out = Empty0

InitDetector ==
    /\ CalendarIdle /\ BacktestIdle
    /\ pc = "scan"
    /\ df \in [0..(MaxLen - 1) -> Bars]
    /\ params \in ParamSets
    /\ scan_i = start_i(params)
    /\ last_signal_pos = None
    /\ out = InitOut(df, params)

\* one iteration of the for-loop (lines 111-169)
ScanStep ==
    /\ pc = "scan"
    /\ scan_i < Len0(df)
    /\ LET g == Gates(df, params, last_signal_pos, scan_i, out[scan_i].adj_sq)
       IN IF g.verdict = "emit"
          THEN /\ out' = [out EXCEPT ![scan_i] =
                            [@ EXCEPT !.signal = 1, !.t_high = g.t_high,
                                      !.t_low = g.t_low,
                                      !.drawdown = g.drawdown,
                                      !.max_bounce_in_drop = g.max_bounce_in_drop,
                                      !.rebound_from_low = g.rebound_from_low]]
               /\ last_signal_pos' = scan_i
          ELSE UNCHANGED <<out, last_signal_pos>>
    /\ scan_i' = scan_i + 1
    /\ UNCHANGED <<pc, df, params>>
    /\ UNCHANGED <<dates, calVars, groupVars, studyVars, navVars>>

\* the loop is exhausted: return out (line 171)
ScanReturn ==
    /\ pc = "scan"
    /\ scan_i >= Len0(df)
    /\ pc' = "scanned"
    /\ UNCHANGED <<df, params, scan_i, last_signal_pos, out>>
    /\ UNCHANGED <<dates, calVars, groupVars, studyVars, navVars>>

NextDetector == ScanStep \/ ScanReturn

SpecDetector == InitDetector /\ [][NextDetector]_vars

\* the positions at which signal = 1 has been written
SignalPositions == {k \in DOMAIN out : out[k].signal = 1}

\* C1: any two emitted signals at positions i < j satisfy j - i >= cooldown
C1_CooldownInvariant ==
    pc \in {"scan", "scanned"} =>
        \A a, b \in SignalPositions : a < b => b - a >= params.cooldown

\* C1 witness: the scan has returned two signals exactly cooldown apart,
\* with cooldown > 1, so the gate has skipped a position in between
C1_Witness ==
    /\ pc = "scanned"
    /\ params.cooldown > 1
    /\ \E a, b \in SignalPositions : b - a = params.cooldown

-----------------------------------------------------------------------------
(* The trading calendar on its own: make_trade_day_tools and its two tools *)

\* make_trade_day_tools: the index is the ascending list of the given days
make_trade_day_tools(S) == SortedIndex(S)

InitCalendar ==
    /\ DetIdle /\ BacktestIdle
    /\ pc = "tools"
    /\ \E S \in SUBSET (0..MaxDay) : dates = make_trade_day_tools(S)
    /\ calOp = "none" /\ calArg = None /\ calOff = 0 /\ calRes = None

PrevTradeDayCall ==
    /\ pc = "tools"
    /\ \E dt \in 0..(MaxDay + 1) :
        /\ calOp' = "prev"
        /\ calArg' = dt
        /\ calOff' = 0
        /\ calRes' = prev_trade_day(dates, dt)
    /\ UNCHANGED <<pc, dates, groupVars, studyVars, navVars, detVars>>

AddTradeDaysCall ==
    /\ pc = "tools"
    /\ \E T \in 0..(MaxDay + 1), h \in (-MaxOff)..MaxOff :
        /\ calOp' = "add"
        /\ calArg' = T
        /\ calOff' = h
        /\ calRes' = add_trade_days(dates, T, h)
    /\ UNCHANGED <<pc, dates, groupVars, studyVars, navVars, detVars>>

NextCalendar == PrevTradeDayCall \/ AddTradeDaysCall

SpecCalendar == InitCalendar /\ [][NextCalendar]_vars

TradingDays == Range0(dates)

\* C9: prev_trade_day(d) is d for a trading day d; for any other date it is
\* the largest trading day strictly before it, or None when there is none
C9_PrevTradeDay ==
    calOp = "prev" =>
        IF calArg \in TradingDays THEN calRes = calArg
        ELSE IF \A t \in TradingDays : t > calArg THEN calRes = None
        ELSE /\ calRes \in TradingDays
             /\ calRes < calArg
             /\ \A t \in TradingDays : t < calArg => t <= calRes

\* C9 witness: a non-trading day between two trading days has been resolved
C9_Witness ==
    /\ calOp = "prev"
    /\ calArg \notin TradingDays
    /\ calRes # None
    /\ \E t \in TradingDays : t > calArg

\* C10: add_trade_days(d, k) = e # None implies add_trade_days(e, -k) = d,
\* and the result is None exactly when d is no trading day or
\* index(d) + k is outside [0, length)
C10_AddTradeDays ==
    calOp = "add" =>
        /\ calRes # None => add_trade_days(dates, calRes, -calOff) = calArg
        /\ calRes = None <=>
              \/ calArg \notin TradingDays
              \/ PosOf(dates, calArg) + calOff < 0
              \/ PosOf(dates, calArg) + calOff >= Len0(dates)
        /\ calRes # None => calRes = dates[PosOf(dates, calArg) + calOff]

\* C10 witness: a call with a negative offset has returned a day
C10_Witness ==
    /\ calOp = "add"
    /\ calOff < 0
    /\ calRes # None
    /\ calRes # calArg

-----------------------------------------------------------------------------
(* build_event_groups_and_end *)

\* the columns of the return table and of the close table
Instruments == {"a", "b", "c", "d", "e", "f"}

\* the position of a column, used only to build the input tables
ColumnNo == [x \in Instruments |->
               CASE x = "a" -> 1 [] x = "b" -> 2 [] x = "c" -> 3
                 [] x = "d" -> 4 [] x = "e" -> 5 [] x = "f" -> 6]

\* d[k] = v on a Python dict
DictPut(f, k, v) == [x \in (DOMAIN f) \cup {k} |-> IF x = k THEN v ELSE f[x]]

Prepend0(x, f) == [k \in 0..Len0(f) |-> IF k = 0 THEN x ELSE f[k - 1]]

\* ret.loc[entry].dropna(): the instruments with a return on that day
dropna(row) == {x \in DOMAIN row : ~IsNaN(row[x])}

\* cross.sort_values().index.tolist(): every ascending order of the
\* instruments in S; equal values may come out in either order (the
\* default sort kind is not stable)
RECURSIVE sort_values(_, _)
sort_values(row, S) ==
    IF S = {} THEN {Empty0}
    ELSE UNION {{Prepend0(x, o) : o \in sort_values(row, S \ {x})} :
                  x \in {y \in S : \A z \in S : RLe(row[y], row[z])}}

\* a variant of the boundaries that rounds to the nearest integer
\* (half to even) instead of truncating
edges_round(count, n, g) ==
    LET a == g * count
        q == a \div n
        r == a % n
    IN IF 2 * r < n THEN q
       ELSE IF 2 * r > n THEN q + 1
       ELSE IF q % 2 = 0 THEN q ELSE q + 1

\* np.linspace(0, count, n + 1).astype(int)[g]: g * count / n truncated
edges(count, n, g) == (g * count) \div n

\* a variant of the slice that includes the element at the upper boundary
group_slice_incl(codes, n, g) ==
    LET hi == edges(Len0(codes), n, g)
    IN Slice0(codes, edges(Len0(codes), n, g - 1),
              IF hi < Len0(codes) THEN hi + 1 ELSE hi)

\* codes[edges[g - 1] : edges[g]]
group_slice(codes, n, g) ==
    Slice0(codes, edges(Len0(codes), n, g - 1), edges(Len0(codes), n, g))

\* a variant of the loop body that keeps an event whose entry day has
\* fewer instruments than n_groups
GroupOutcomes_keep_small(T) ==
    LET entry == prev_trade_day(dates, T)
        exit_ == add_trade_days(dates, entry, holding_days)
        same == {<<event_groups, event_end>>}
    IN IF entry = None \/ entry \notin DOMAIN ret THEN same
       ELSE IF exit_ = None \/ exit_ \notin DOMAIN ret THEN same
       ELSE IF exit_ <= entry THEN same
       ELSE LET cross == dropna(ret[entry])
            IN IF cross = {} THEN same
               ELSE {<<DictPut(event_groups, entry,
                               [g \in 1..n_groups |-> group_slice(codes, n_groups, g)]),
                       DictPut(event_end, entry, exit_)>> :
                       codes \in sort_values(ret[entry], cross)}

\* the dicts after the loop body has run for signal date T: one pair
\* <<event_groups, event_end>> per order the sort may produce
GroupOutcomes(T) ==
    LET entry == prev_trade_day(dates, T)
        exit_ == add_trade_days(dates, entry, holding_days)
        same == {<<event_groups, event_end>>}
    IN IF entry = None \/ entry \notin DOMAIN ret THEN same
       ELSE IF exit_ = None \/ exit_ \notin DOMAIN ret THEN same
       ELSE IF exit_ <= entry THEN same
       ELSE LET cross == dropna(ret[entry])
            IN IF cross = {} THEN same
               ELSE IF Cardinality(cross) < n_groups THEN same
               ELSE {<<DictPut(event_groups, entry,
                               [g \in 1..n_groups |-> group_slice(codes, n_groups, g)]),
                       DictPut(event_end, entry, exit_)>> :
                       codes \in sort_values(ret[entry], cross)}

\* one iteration of the loop over sig_list (lines 73-103)
GroupStep ==
    /\ pc = "group"
    /\ sig_pos < Len0(sig_list)
    /\ \E o \in GroupOutcomes(sig_list[sig_pos]) :
        /\ event_groups' = o[1]
        /\ event_end' = o[2]
    /\ sig_pos' = sig_pos + 1
    /\ UNCHANGED <<pc, dates, sig_list, ret, holding_days, n_groups>>
    /\ UNCHANGED <<calVars, studyVars, navVars, detVars>>

\* the loop is exhausted: return sig_list, event_groups, event_end (line 105)
GroupReturn ==
    /\ pc = "group"
    /\ sig_pos >= Len0(sig_list)
    /\ pc' = "grouped"
    /\ UNCHANGED <<dates, calVars, groupVars, studyVars, navVars, detVars>>

-----------------------------------------------------------------------------
(* run_event_study *)

\* the groups the event study reports: for k in [1, 2, 3, 4, 5]
study_groups == {1, 2, 3, 4, 5}

\* (ind_close.loc[exit] / ind_close.loc[entry] - 1.0)
\*     .replace([np.inf, -np.inf], np.nan), before dropna()
gross_returns(ic, entry, exit_) ==
    [x \in DOMAIN ic[entry] |->
        LET v == RSub(RDiv(ic[exit_][x], ic[entry][x]), Num(1))
        IN IF IsInf(v) THEN NaN ELSE v]

\* [x for x in g[k] if x in gross.index], gross.index being the instruments
\* left by dropna()
members_in(group, index) == {x \in Range0(group) : x \in index}

\* (float(gross.loc[members].mean()) - bench_gross) if len(members) else nan
group_excess(gross, group, bench_gross) ==
    LET members == members_in(group, dropna(gross))
    IN IF members # {} THEN RSub(RMean(gross, members), bench_gross)
       ELSE NaN

\* rows after the loop has processed sig_list[0 .. k-1] (lines 46-73)
RECURSIVE study_rows(_, _)
study_rows(ic, k) ==
    IF k = 0 THEN Empty0
    ELSE LET rows == study_rows(ic, k - 1)
             T == sig_list[k - 1]
             entry == prev_trade_day(dates, T)
             exit_ == IF entry \in DOMAIN event_end THEN event_end[entry] ELSE None
             gross == gross_returns(ic, entry, exit_)
             bench_gross == RMean(gross, dropna(gross))
         IN IF entry = None THEN rows
            ELSE IF exit_ = None THEN rows
            ELSE IF entry \notin DOMAIN ic \/ exit_ \notin DOMAIN ic THEN rows
            ELSE IF exit_ <= entry THEN rows
            ELSE IF dropna(gross) = {} THEN rows
            ELSE IF entry \notin DOMAIN event_groups THEN rows
            ELSE Append0(rows,
                   [signal_date |-> entry, entry |-> entry, exit |-> exit_,
                    G |-> [k2 \in study_groups |->
                             group_excess(gross, event_groups[entry][k2], bench_gross)]])

\* DataFrame(rows).set_index("signal_date").sort_index(): the rows in
\* ascending order of their index, rows with equal index in their given order
sort_index(rows) ==
    LET rank(j) == Cardinality({m \in DOMAIN rows :
                       \/ rows[m].signal_date < rows[j].signal_date
                       \/ rows[m].signal_date = rows[j].signal_date /\ m < j})
    IN [k \in DOMAIN rows |-> rows[CHOOSE j \in DOMAIN rows : rank(j) = k]]

\* event_excess[[G1..G5]].mean(), and the all-NaN summary of the empty case
summary_mean(rows) ==
    [k \in study_groups |-> RMean([j \in DOMAIN rows |-> rows[j].G[k]], DOMAIN rows)]

-----------------------------------------------------------------------------
(* build_long_short_nav *)

\* the groups bought and sold: groups[5] and groups[1]
long_group == 5
short_group == 1

\* ret.mean(axis=1) on one day (build_industry_panel)
bench_ret(d) == RMean(ret[d], DOMAIN ret[d])

Reverse0(f) == [k \in DOMAIN f |-> f[Len0(f) - 1 - k]]

\* a variant that walks the events in ascending order of entry
event_items_asc == SortedIndex(DOMAIN event_end)

\* sorted(event_end.items(), key=lambda x: x[0], reverse=True): the keys
event_items_desc == Reverse0(SortedIndex(DOMAIN event_end))

\* a variant of the inner loop that tests the day itself, not the
\* preceding trading day, against the event windows
nav_day_same_day(i) ==
    LET d == dates[i]
        items == event_items_desc
        hits == {k \in DOMAIN items :
                   /\ d >= items[k] /\ d < event_end[items[k]]
                   /\ items[k] \in DOMAIN event_groups}
    IN IF hits = {} THEN [ret |-> bench_ret(d), event |-> None]
       ELSE LET T == items[CHOOSE k \in hits : \A m \in hits : k <= m]
                groups == event_groups[T]
                rrow == ret[d]
                long_names == members_in(groups[long_group], DOMAIN rrow)
                short_names == members_in(groups[short_group], DOMAIN rrow)
            IN IF long_names = {} \/ short_names = {}
               THEN [ret |-> bench_ret(d), event |-> T]
               ELSE [ret |-> RSub(RMean(rrow, long_names), RMean(rrow, short_names)),
                     event |-> T]

\* the inner loop for day position i >= 1 (lines 32-49): the daily return
\* stored and the event T at which the loop stopped
nav_day(i) ==
    LET d == dates[i]
        d_prev == dates[i - 1]
        items == event_items_desc
        hits == {k \in DOMAIN items :
                   /\ d_prev >= items[k] /\ d_prev < event_end[items[k]]
                   /\ items[k] \in DOMAIN event_groups}
    IN IF hits = {} THEN [ret |-> bench_ret(d), event |-> None]
       ELSE LET T == items[CHOOSE k \in hits : \A m \in hits : k <= m]
                groups == event_groups[T]
                rrow == ret[d]
                long_names == members_in(groups[long_group], DOMAIN rrow)
                short_names == members_in(groups[short_group], DOMAIN rrow)
            IN IF long_names = {} \/ short_names = {}
               THEN [ret |-> bench_ret(d), event |-> T]
               ELSE [ret |-> RSub(RMean(rrow, long_names), RMean(rrow, short_names)),
                     event |-> T]

fillna0(x) == IF IsNaN(x) THEN Num(0) ELSE x

\* (1.0 + ls_ret.fillna(0.0)).cumprod() at position i
RECURSIVE cumprod(_, _)
cumprod(r, i) ==
    LET f == RAdd(Num(1), fillna0(r[i]))
    IN IF i = 0 THEN f ELSE RMul(cumprod(r, i - 1), f)

-----------------------------------------------------------------------------
(* The backtest chain of main.py: grouping, event study, long-short NAV *)

\* the trading calendars drawn: every day, or one day missing
BacktestCalendars == {(0..MaxDay) \ M : M \in {{}, {0}, {2}}}

\* a return table without gaps or ties
BaseRet(S) == [d \in S |-> [x \in Instruments |-> Num((ColumnNo[x] * (d + 1)) % 7)]]

\* the sets of instruments whose return is missing on the perturbed day
NaNSets == {{"a"}, {"f"}, {"a", "b"}}

\* ret = ind_close.pct_change(): the row of the first trading day is missing
pct_change_head(t, S) ==
    [d \in S |-> IF \A e \in S : d <= e THEN [x \in Instruments |-> NaN] ELSE t[d]]

\* the return tables drawn: the base table, and the base table with one
\* day on which some returns are missing or two returns are equal
RetTables(S) ==
    {pct_change_head(t, S) : t \in
        {BaseRet(S)}
          \cup {[BaseRet(S) EXCEPT ![p] = [x \in Instruments |->
                     IF x \in H THEN NaN ELSE @[x]]] : p \in S, H \in NaNSets}
          \cup {[BaseRet(S) EXCEPT ![p] = [x \in Instruments |->
                     IF x = "b" THEN @["a"] ELSE @[x]]] : p \in S}}

BaseClose(S) == [d \in S |-> [x \in Instruments |-> Num(1 + ((ColumnNo[x] * (d + 2)) % 5))]]

\* the close tables drawn: complete; one column missing and another with
\* a zero close on the odd days; every close missing
CloseTables(S) ==
    {BaseClose(S),
     [d \in S |-> [x \in Instruments |->
         IF x = "a" THEN NaN
         ELSE IF x = "c" /\ d % 2 = 1 THEN Num(0)
         ELSE BaseClose(S)[d][x]]],
     [d \in S |-> [x \in Instruments |-> NaN]]}

InitBacktest ==
    /\ DetIdle
    /\ pc = "group"
    /\ calOp = "none" /\ calArg = None /\ calOff = 0 /\ calRes = None
    /\ \E S \in BacktestCalendars :
        /\ dates = make_trade_day_tools(S)
        /\ ret \in RetTables(S)
    /\ \E sig \in {s \in SUBSET (0..MaxDay) : Cardinality(s) <= 2} :
        sig_list = SortedIndex(sig)
    /\ sig_pos = 0
    /\ holding_days \in {1, 2}
    /\ n_groups \in {5, 6}
    /\ event_groups = Empty0 /\ event_end = Empty0
    /\ ind_close = Empty0 /\ event_excess = Empty0 /\ mean_excess = Empty0
    /\ ls_ret = Empty0 /\ ls_event = Empty0 /\ ls_nav = Empty0

\* run_event_study(signals, ind_close, event_groups, event_end, tools, sig_col)
RunEventStudy ==
    /\ pc = "grouped"
    /\ \E ic \in CloseTables(Range0(dates)) :
        LET rows == study_rows(ic, Len0(sig_list))
        IN /\ ind_close' = ic
           /\ event_excess' = sort_index(rows)
           /\ mean_excess' = summary_mean(sort_index(rows))
    /\ pc' = "studied"
    /\ UNCHANGED <<dates, calVars, groupVars, navVars, detVars>>

\* build_long_short_nav(ret, bench_ret, dates, event_groups, event_end)
BuildLongShortNav ==
    /\ pc = "studied"
    /\ LET day == [i \in DOMAIN dates |->
                     IF i = 0 THEN [ret |-> bench_ret(dates[0]), event |-> None]
                     ELSE nav_day(i)]
           r == [i \in DOMAIN dates |-> day[i].ret]
       IN /\ ls_ret' = r
          /\ ls_event' = [i \in DOMAIN dates |-> day[i].event]
          /\ ls_nav' = [i \in DOMAIN dates |-> cumprod(r, i)]
    /\ pc' = "done"
    /\ UNCHANGED <<dates, calVars, groupVars, studyVars, detVars>>

NextBacktest == GroupStep \/ GroupReturn \/ RunEventStudy \/ BuildLongShortNav

SpecBacktest == InitBacktest /\ [][NextBacktest]_vars

-----------------------------------------------------------------------------
(* Properties of the backtest chain *)

MaxOf(S) == CHOOSE x \in S : \A y \in S : y <= x

\* the stored events whose window [entry, exit) holds the trading day
\* before position i
Covering(i) ==
    {e \in DOMAIN event_end : e <= dates[i - 1] /\ dates[i - 1] < event_end[e]}

NavDays == (DOMAIN dates) \ {0}

\* the members of a group with a present return in a row
Present(group, row) == {x \in Range0(group) : ~IsNaN(row[x])}

\* C2: when several stored events cover d_prev, day d uses the covering
\* event with the latest entry day and none with an earlier entry
C2_LatestEntryWins ==
    pc = "done" =>
        \A i \in NavDays :
            Covering(i) # {} =>
                /\ ls_event[i] = MaxOf(Covering(i))
                /\ \A e \in Covering(i) : e < MaxOf(Covering(i)) => ls_event[i] # e

\* C2 witness: a day covered by two events whose long or short groups differ
C2_Witness ==
    /\ pc = "done"
    /\ \E i \in NavDays : \E e1, e2 \in Covering(i) :
        /\ e1 < e2
        /\ ls_event[i] = e2
        /\ \/ event_groups[e1][long_group] # event_groups[e2][long_group]
           \/ event_groups[e1][short_group] # event_groups[e2][short_group]

\* C3: on an active day on which the top group or group 1 has no member
\* with a present return, the daily return is the benchmark return, and no
\* missing value is stored on an active day whose benchmark is defined
C3_FallbackToBenchmark ==
    pc = "done" =>
        \A i \in NavDays :
            Covering(i) # {} =>
                LET T == MaxOf(Covering(i))
                    row == ret[dates[i]]
                    long == Present(event_groups[T][n_groups], row)
                    short == Present(event_groups[T][1], row)
                IN /\ (long = {} \/ short = {}) => ls_ret[i] = bench_ret(dates[i])
                   /\ ~IsNaN(bench_ret(dates[i])) => ~IsNaN(ls_ret[i])

\* C4: on an active day the daily return is the mean return of group
\* n_groups minus the mean return of group 1, for every n_groups
C4_TopMinusBottom ==
    pc = "done" =>
        \A i \in NavDays :
            Covering(i) # {} =>
                LET T == MaxOf(Covering(i))
                    row == ret[dates[i]]
                IN ls_ret[i] = RSub(RMean(row, Range0(event_groups[T][n_groups])),
                                    RMean(row, Range0(event_groups[T][1])))

Concat0(f, g) ==
    [k \in 0..(Len0(f) + Len0(g) - 1) |-> IF k < Len0(f) THEN f[k] ELSE g[k - Len0(f)]]

\* the groups 1..g of an event laid end to end
RECURSIVE ConcatGroups(_, _)
ConcatGroups(gs, g) ==
    IF g = 0 THEN Empty0 ELSE Concat0(ConcatGroups(gs, g - 1), gs[g])

IsAscending(codes, row) ==
    \A j, k \in DOMAIN codes : j < k => RLe(row[codes[j]], row[codes[k]])

\* the groups of event e are the slices of one ascending list of the
\* instruments with a return on day e, cut at the boundaries bound(count, g)
SlicedAt(e, bound(_, _)) ==
    LET gs == event_groups[e]
        codes == ConcatGroups(gs, n_groups)
        count == Cardinality(dropna(ret[e]))
    IN /\ count >= n_groups
       /\ Len0(codes) = count
       /\ Range0(codes) = dropna(ret[e])
       /\ IsAscending(codes, ret[e])
       /\ \A g \in 1..n_groups :
            gs[g] = Slice0(codes, bound(count, g - 1), bound(count, g))

RoundBound(count, g) == edges_round(count, n_groups, g)

FloorBound(count, g) == (g * count) \div n_groups

\* C5 as stated: group g is the slice from round((g-1)*count/n_groups) up to
\* round(g*count/n_groups)
C5_SlicesAtRounded ==
    \A e \in DOMAIN event_groups : SlicedAt(e, RoundBound)

\* C5 amended: group g is the slice from floor((g-1)*count/n_groups) up to
\* floor(g*count/n_groups) of the ascending instrument list
C5_SlicesAtFloor ==
    \A e \in DOMAIN event_groups : SlicedAt(e, FloorBound)

\* C5 witness: a stored event for which rounding and truncating differ
C5_Witness ==
    \E e \in DOMAIN event_groups :
        \E g \in 1..n_groups :
            LET count == Cardinality(dropna(ret[e]))
            IN RoundBound(count, g) # FloorBound(count, g)

\* C6: the groups of a stored event are pairwise disjoint, their union is
\* the set of instruments with a return on the entry day, and any two
\* group sizes differ by at most one
C6_Partition ==
    \A e \in DOMAIN event_groups :
        LET gs == event_groups[e]
        IN /\ \A g, h \in 1..n_groups :
                g # h => Range0(gs[g]) \cap Range0(gs[h]) = {}
           /\ \A g \in 1..n_groups : Cardinality(Range0(gs[g])) = Len0(gs[g])
           /\ UNION {Range0(gs[g]) : g \in 1..n_groups} = dropna(ret[e])
           /\ \A g, h \in 1..n_groups : Len0(gs[g]) - Len0(gs[h]) <= 1

\* C6 witness: a stored event whose groups have unequal sizes, and a stored
\* event whose entry day has an instrument without a return
C6_Witness ==
    /\ \E e \in DOMAIN event_groups : dropna(ret[e]) # Instruments
    /\ \E e \in DOMAIN event_groups : \E g, h \in 1..n_groups :
            Len0(event_groups[e][g]) # Len0(event_groups[e][h])

\* the signal dates that resolve to entry day e
SignalsOf(e) == {T \in Range0(sig_list) : prev_trade_day(dates, T) = e}

RowsOf(e) == {j \in DOMAIN event_excess : event_excess[j].entry = e}

\* C7: when two or more signal dates resolve to one entry day, one event is
\* stored for it and the per-event table holds exactly one row for it
C7_OneRowPerEntry ==
    pc \in {"studied", "done"} =>
        \A e \in DOMAIN event_end :
            (Cardinality(SignalsOf(e)) >= 2 /\ RowsOf(e) # {}) =>
                Cardinality(RowsOf(e)) = 1

\* C8: for every reported event and every k in 1..n_groups, Gk is the mean
\* gross return of the group-k members with a finite gross return minus the
\* mean of all finite gross returns, and missing when there is no such member
C8_GroupExcess ==
    pc \in {"studied", "done"} =>
        \A j \in DOMAIN event_excess :
            LET row == event_excess[j]
                gross == [x \in Instruments |->
                            RSub(RDiv(ind_close[row.exit][x], ind_close[row.entry][x]),
                                 Num(1))]
                finite == {x \in Instruments : IsFinite(gross[x])}
            IN \A k \in 1..n_groups :
                 /\ k \in DOMAIN row.G
                 /\ LET members == Range0(event_groups[row.entry][k]) \cap finite
                    IN row.G[k] = IF members = {} THEN NaN
                                  ELSE RSub(RMean(gross, members), RMean(gross, finite))

\* the signal dates whose entry day has fewer instruments with a return
\* than n_groups
SmallSignals ==
    {T \in Range0(sig_list) :
        /\ prev_trade_day(dates, T) # None
        /\ Cardinality({x \in Instruments :
                          ~IsNaN(ret[prev_trade_day(dates, T)][x])}) < n_groups}

\* the day positions whose preceding trading day lies in the window the
\* signal T would have had
WouldBeDays(T) ==
    LET entry == prev_trade_day(dates, T)
        pos == CHOOSE k \in DOMAIN dates : dates[k] = entry
    IN {i \in NavDays : pos <= i - 1 /\ i - 1 < pos + holding_days}

\* C11: a signal whose entry day has fewer instruments with a return than
\* n_groups leaves no event under its entry in event_groups or event_end,
\* and the days covered only by its would-be window get the benchmark return
C11_SmallCrossSectionSkipped ==
    /\ pc # "group" =>
         \A T \in SmallSignals :
             /\ prev_trade_day(dates, T) \notin DOMAIN event_groups
             /\ prev_trade_day(dates, T) \notin DOMAIN event_end
    /\ pc = "done" =>
         \A T \in SmallSignals : \A i \in WouldBeDays(T) :
             Covering(i) = {} =>
                 /\ ls_event[i] = None
                 /\ ls_ret[i] = RMean(ret[dates[i]], Instruments)

\* C11 witness: the NAV has been built after a signal was skipped whose
\* entry day has some, but fewer than n_groups, instruments with a return,
\* next to a stored event, and a day of its would-be window has a benchmark
C11_Witness ==
    /\ pc = "done"
    /\ DOMAIN event_end # {}
    /\ \E T \in SmallSignals :
        /\ dropna(ret[prev_trade_day(dates, T)]) # {}
        /\ \E i \in WouldBeDays(T) :
            Covering(i) = {} /\ ~IsNaN(ls_ret[i])

\* C12: when the event study reports no event, the event table has zero
\* rows and the summary holds a missing value for every group G1..Gn
C12_EmptyStudy ==
    (pc \in {"studied", "done"} /\ event_excess = Empty0) =>
        \A k \in 1..n_groups :
            /\ k \in DOMAIN mean_excess
            /\ IsNaN(mean_excess[k])

\* the position of a trading day in the calendar
DayPos(d) == CHOOSE k \in DOMAIN dates : dates[k] = d

\* the day range entry..exit of event e shares no day with another event
Isolated(e) ==
    \A e2 \in (DOMAIN event_end) \ {e} : event_end[e2] < e \/ event_end[e] < e2

\* the mean return of group 5 minus the mean return of group 1 of event e
\* on the day at position i
Spread(e, i) ==
    RSub(RMean(ret[dates[i]], Range0(event_groups[e][5])),
         RMean(ret[dates[i]], Range0(event_groups[e][1])))

\* C16: for a stored event that overlaps no other, the days whose return is
\* its spread are exactly the positions index(entry)+1 .. index(exit), which
\* are holding_days days; its entry day keeps the benchmark return; and
\* every day covered by no event, the first day included, keeps the
\* benchmark return
C16_SpreadDays ==
    pc = "done" =>
        /\ \A e \in DOMAIN event_end :
             Isolated(e) =>
                 /\ DayPos(event_end[e]) - DayPos(e) = holding_days
                 /\ \A i \in DOMAIN dates :
                      ls_event[i] = e <=>
                          (DayPos(e) + 1 <= i /\ i <= DayPos(event_end[e]))
                 /\ \A i \in DOMAIN dates :
                      ls_event[i] = e => ls_ret[i] = Spread(e, i)
                 /\ ls_ret[DayPos(e)] = RMean(ret[e], Instruments)
        /\ \A i \in DOMAIN dates :
             (i = 0 \/ Covering(i) = {}) =>
                 /\ ls_event[i] = None
                 /\ ls_ret[i] = RMean(ret[dates[i]], Instruments)

\* C16 witness: one of two stored events that overlap no other, whose
\* spread differs from the benchmark on its entry day and on its exit day
C16_Witness ==
    /\ pc = "done"
    /\ \E e \in DOMAIN event_end :
        /\ Isolated(e)
        /\ DayPos(e) >= 1
        /\ Cardinality(DOMAIN event_end) >= 2
        /\ ls_ret[DayPos(e)] # Spread(e, DayPos(e))
        /\ ls_ret[DayPos(event_end[e])] = Spread(e, DayPos(event_end[e]))
        /\ ls_ret[DayPos(event_end[e])] # RMean(ret[event_end[e]], Instruments)

-----------------------------------------------------------------------------
(* Properties of the detector *)

\* D_t = d0 * adj and U_t = u0 * adj are defined exactly when adj is
ThresholdsDefined(k) == ~IsNaN(out[k].adj_sq)

\* C13: ATR at position t is defined exactly when a full atr_window of
\* True-Range observations ends at t, and where ATR is undefined the
\* thresholds D_t and U_t are undefined and no signal is emitted
C13_ThresholdsNeedATR ==
    pc \in {"scan", "scanned"} =>
        \A k \in DOMAIN out :
            /\ ~IsNaN(out[k].atr) <=> k >= params.atr_window
            /\ IsNaN(out[k].atr) => (~ThresholdsDefined(k) /\ out[k].signal = 0)

\* the positions the loop has visited
Scanned ==
    {k \in DOMAIN df :
        /\ k >= Max2(params.atr_window, params.lookback_peak + params.lookback_trough)
        /\ k < scan_i}

\* C14: at every scanned position i the trough window holds exactly
\* lookback_trough closes, the last of which is close[i], and t_low is the
\* first minimum close among them
C14_TroughWindow ==
    pc \in {"scan", "scanned"} =>
        \A k \in Scanned :
            /\ low_window(params, k).last = k
            /\ low_window(params, k).last - low_window(params, k).first + 1
                   = params.lookback_trough
            /\ Gates(df, params, None, k, out[k].adj_sq).t_low
                   = idxmin(df, k - params.lookback_trough + 1, k)
            /\ out[k].signal = 1 =>
                   out[k].t_low = idxmin(df, k - params.lookback_trough + 1, k)

\* the three value gates at position k, on the trough and peak the loop
\* finds: drawdown <= D_t, maximum bounce <= bounce_tol * U_t, rebound >= U_t
PassesGates(k) ==
    LET t_low == idxmin(df, k - params.lookback_trough, k)
        t_high == idxmax(df, Max2(0, t_low - params.lookback_peak), t_low)
        c_low == df[t_low].close
        drawdown == RSub(Rat(c_low, df[t_high].close), Num(1))
        bounce == max_bounce(df, t_high, t_low)
        rebound == RSub(Rat(df[k].close, c_low), Num(1))
        a2 == out[k].adj_sq
    IN /\ ThresholdsDefined(k)
       /\ ~GtScaled(drawdown, d0, a2)
       /\ ~GtScaled(bounce, RMul(bounce_tol, u0), a2)
       /\ ~LtScaled(rebound, u0, a2)

\* no signal at an earlier position less than cooldown away
CooldownOver(k) ==
    \A j \in SignalPositions : j < k => k - j >= params.cooldown

\* C15: a visited position i carries a signal if and only if
\* i >= max(atr_window, lookback_peak + lookback_trough), no signal lies at a
\* position j with i - j < cooldown, and the thresholds are defined with
\* drawdown <= D_t, maximum bounce <= bounce_tol * U_t and rebound >= U_t;
\* positions not yet visited carry no signal
C15_EmitIff ==
    pc \in {"scan", "scanned"} =>
        \A k \in DOMAIN out :
            /\ k < scan_i =>
                 (out[k].signal = 1 <=>
                    /\ k >= Max2(params.atr_window,
                                 params.lookback_peak + params.lookback_trough)
                    /\ CooldownOver(k)
                    /\ PassesGates(k))
            /\ k >= scan_i => out[k].signal = 0

\* C15 witness: the scan has returned a signal and a later position that
\* passes the value gates but carries no signal because of the cooldown
C15_Witness ==
    /\ pc = "scanned"
    /\ \E a, b \in Scanned :
        /\ a < b
        /\ out[a].signal = 1
        /\ out[b].signal = 0
        /\ PassesGates(b)

=============================================================================
